---- MODULE Spec2Model ----
(***************************************************************************)
(* EOF v1 container validation of packages/evm/src/eof.ts:                 *)
(* isEOFCode, getEOFVersion, validateCode and checkOpcodes.                *)
(*                                                                         *)
(* A Buffer is a sequence of bytes (0..255).  The source indexes from 0,   *)
(* sequences from 1: At(code, i) is the source's code[i].                  *)
(***************************************************************************)
EXTENDS Integers, Sequences, FiniteSets, TLC

VARIABLES
    code,        \* the Buffer handed to the three exported functions
    handlers,    \* the keys of the opcode handler map imported from ./opcodes
    called,      \* the exported functions that have been called on code
    isEof,       \* what isEOFCode(code) returned (FALSE before any call)
    version,     \* what getEOFVersion(code) returned (0 before the call)
    valid,       \* how validateCode(code) ended: "true", "false", "RangeError"; "none" before
    exitAt,      \* the block of validateCode that ended the call
    scanWhy,     \* why checkOpcodes returned ("none" when it was not called)
    scanAt,      \* the offset of the opcode at which checkOpcodes returned
    immediates,  \* checkOpcodes' set `immediates` when it returned
    rjumpdests,  \* checkOpcodes' set `rjumpdests` when it returned
    opstarts     \* the cursor positions at which checkOpcodes read an opcode

vars ==
    <<code, handlers, called, isEof, version, valid, exitAt, scanWhy, scanAt,
      immediates, rjumpdests, opstarts>>

----------------------------------------------------------------------------
(* Program constants *)

MAGIC == <<239, 0>>          \* EF 00
KIND_TYPE == 1
KIND_CODE == 2
KIND_DATA == 3
TERMINATOR == 0
SUPPORTED_VERSION == 0       \* the literal of `version !== 0`
MIN_LENGTH == 15             \* the literal of `code.length < 15`
MAX_CODE_SECTIONS == 1024
MAX_IO == 127                \* 0x7f
MAX_STACK_HEIGHT == 1023
OP_INVALID == 254            \* 0xfe
OP_PC == 88                  \* 0x58
OP_SELFDESTRUCT == 255       \* 0xff
OP_CALLCODE == 242           \* 0xf2
OP_PUSH1 == 96               \* 0x60
OP_PUSH32 == 127             \* 0x7f
OP_RJUMP == 92               \* 0x5c
OP_RJUMPI == 93              \* 0x5d
OP_RJUMPV == 94              \* 0x5e
terminatingOpcodes == {0, 243, 253, 254, 255}   \* 00 f3 fd fe ff

(* JavaScript's `undefined`, the value of an index read outside the Buffer *)
undefined == -1

----------------------------------------------------------------------------
(* Buffer primitives *)

(* code[i]: the byte at 0-based index i, undefined outside the Buffer *)
At(buf, i) == IF i >= 0 /\ i < Len(buf) THEN buf[i + 1] ELSE undefined

(* code.slice(0, n): clamps to the Buffer's length *)
SliceFromStart(buf, n) == SubSeq(buf, 1, IF n < Len(buf) THEN n ELSE Len(buf))

(* Buffer.readUint8 / readUint16BE / readInt16BE throw a RangeError when the
   read does not lie inside the Buffer: InRange is their bounds check.     *)
InRange(buf, off, n) == off >= 0 /\ off + n <= Len(buf)

readUint8(buf, off) == buf[off + 1]

readUint16BE(buf, off) == buf[off + 1] * 256 + buf[off + 2]

readInt16BE(buf, off) ==
    LET u == readUint16BE(buf, off)
    IN  IF u >= 32768 THEN u - 65536 ELSE u

----------------------------------------------------------------------------
(* isEOFCode, getEOFVersion *)

(* isEOFCode with the fault of comparing the first byte only *)
isEOFCode_FirstByteOnly(buf) == SliceFromStart(buf, 1) = <<239>>

isEOFCode(buf) == SliceFromStart(buf, 2) = MAGIC

_getEOFVersion(buf) == At(buf, 2)

(* getEOFVersion with the fault of leaving out the isEOFCode guard *)
getEOFVersion_Unguarded(buf) == _getEOFVersion(buf)

getEOFVersion(buf) == IF ~isEOFCode(buf) THEN 0 ELSE _getEOFVersion(buf)

----------------------------------------------------------------------------
(* validateCode: version, header *)

(* lines 50-58: `code.length <= 2` and `version !== 0` both return false *)
VersionSupported(buf) ==
    /\ ~(Len(buf) <= 2)
    /\ ~(_getEOFVersion(buf) # SUPPORTED_VERSION)

typeSectionSize(buf) == readUint16BE(buf, 4)

numCodeSections(buf) == readUint16BE(buf, 7)

dataSectionMarkerIndex(buf) == 9 + 2 * numCodeSections(buf)

bodyStartPos(buf) == dataSectionMarkerIndex(buf) + 4

(* lines 69-71 *)
LengthAtLeastMin(buf) == ~(Len(buf) < MIN_LENGTH)

(* lines 75-91: KIND_TYPE and the type section size *)
TypeHeaderValid(buf) ==
    /\ ~(At(buf, 3) # KIND_TYPE)
    /\ ~(typeSectionSize(buf) % 4 # 0)
    /\ ~(typeSectionSize(buf) < 4)

(* lines 93-103: KIND_CODE and the number of code sections *)
CodeHeaderValid(buf) ==
    /\ ~(At(buf, 6) # KIND_CODE)
    /\ ~(numCodeSections(buf) > MAX_CODE_SECTIONS \/ numCodeSections(buf) = 0)

(* TypeCountMatches with the fault of leaving the comparison out *)
TypeCountMatches_Dropped(buf) == TRUE

(* lines 105-108: `typeSectionSize / 4 !== numCodeSections`; the size is a
   multiple of 4 here, so the floating-point quotient is the integer one *)
TypeCountMatches(buf) == ~(typeSectionSize(buf) \div 4 # numCodeSections(buf))

(* lines 112-133: KIND_DATA and TERMINATOR; the index reads give undefined
   past the end of the Buffer and fail the comparison *)
DataHeaderValid(buf) ==
    /\ ~(Len(buf) < dataSectionMarkerIndex(buf))
    /\ ~(At(buf, dataSectionMarkerIndex(buf)) # KIND_DATA)
    /\ ~(Len(buf) < bodyStartPos(buf))
    /\ ~(At(buf, dataSectionMarkerIndex(buf) + 3) # TERMINATOR)

(* lines 69-133 in the order of the source *)
HeaderValid(buf) ==
    /\ LengthAtLeastMin(buf)
    /\ TypeHeaderValid(buf)
    /\ CodeHeaderValid(buf)
    /\ TypeCountMatches(buf)
    /\ DataHeaderValid(buf)

(* HeaderReject with the fault of testing KIND_DATA and TERMINATOR before
   the number of type sections is compared with the number of code sections *)
HeaderReject_DataFirst(buf) ==
    IF ~LengthAtLeastMin(buf) THEN "length"
    ELSE IF ~TypeHeaderValid(buf) THEN "type"
    ELSE IF ~CodeHeaderValid(buf) THEN "code"
    ELSE IF ~DataHeaderValid(buf) THEN "data"
    ELSE IF ~TypeCountMatches(buf) THEN "count"
    ELSE "none"

(* lines 69-133: the block whose `return false` ends the header parsing,
   "none" when the header is accepted *)
HeaderReject(buf) ==
    IF ~LengthAtLeastMin(buf) THEN "length"
    ELSE IF ~TypeHeaderValid(buf) THEN "type"
    ELSE IF ~CodeHeaderValid(buf) THEN "code"
    ELSE IF ~TypeCountMatches(buf) THEN "count"
    ELSE IF ~DataHeaderValid(buf) THEN "data"
    ELSE "none"

----------------------------------------------------------------------------
(* validateCode: type section, layout *)

numTypeSections(buf) == typeSectionSize(buf) \div 4

(* lines 143-156, one iteration at currentBodyPos: "RangeError" when a read
   leaves the Buffer, "false" when a bound is exceeded, "ok" otherwise *)
TypeEntryCheck(buf, currentBodyPos) ==
    IF ~InRange(buf, currentBodyPos, 1) THEN "RangeError"
    ELSE IF readUint8(buf, currentBodyPos) > MAX_IO THEN "false"
    ELSE IF ~InRange(buf, currentBodyPos + 1, 1) THEN "RangeError"
    ELSE IF readUint8(buf, currentBodyPos + 1) > MAX_IO THEN "false"
    ELSE IF ~InRange(buf, currentBodyPos + 2, 2) THEN "RangeError"
    ELSE IF readUint16BE(buf, currentBodyPos + 2) > MAX_STACK_HEIGHT THEN "false"
    ELSE "ok"

(* lines 140-158: the loop over the type entries from entry typeSection on *)
RECURSIVE TypeSectionLoop(_, _)
TypeSectionLoop(buf, typeSection) ==
    IF ~(typeSection < numTypeSections(buf)) THEN "ok"
    ELSE LET r == TypeEntryCheck(buf, bodyStartPos(buf) + 4 * typeSection)
         IN  IF r # "ok" THEN r ELSE TypeSectionLoop(buf, typeSection + 1)

(* TypeSectionCheck with the fault of checking the first entry only *)
TypeSectionCheck_FirstOnly(buf) == TypeEntryCheck(buf, bodyStartPos(buf))

TypeSectionCheck(buf) == TypeSectionLoop(buf, 0)

(* lines 161-165: the sum of the code section sizes read from pos on *)
RECURSIVE CodeSizeFrom(_, _)
CodeSizeFrom(buf, pos) ==
    IF ~(pos < 9 + 2 * numCodeSections(buf)) THEN 0
    ELSE readUint16BE(buf, pos) + CodeSizeFrom(buf, pos + 2)

codeSize(buf) == CodeSizeFrom(buf, 9)

dataSectionSize(buf) == readUint16BE(buf, dataSectionMarkerIndex(buf) + 1)

(* lines 169-174: currentBodyPos after the type loop, plus the declared
   sizes, must be code.length - 1 *)
LayoutValid(buf) ==
    ~(bodyStartPos(buf) + 4 * numTypeSections(buf) + codeSize(buf) + dataSectionSize(buf)
        # Len(buf) - 1)

----------------------------------------------------------------------------
(* checkOpcodes *)

(* AllowedOpcodes with the fault of leaving out the deletions of lines 188-190 *)
AllowedOpcodes_NoDeletions(table) == table \cup {OP_INVALID}

(* lines 186-190: the allowed opcodes built from the handler map's keys *)
AllowedOpcodes(table) ==
    ((table \cup {OP_INVALID}) \ {OP_PC}) \ {OP_SELFDESTRUCT, OP_CALLCODE}

(* How checkOpcodes returned, with its local sets at that moment *)
ScanReturn(ok, why, at, imm, dests, starts) ==
    [ok |-> ok, why |-> why, at |-> at,
     immediates |-> imm, rjumpdests |-> dests, opstarts |-> starts]

(* AfterLoop with the fault of leaving out the cross-check of lines 267-271 *)
AfterLoop_NoCrossCheck(buf, imm, dests, starts) ==
    IF ~(At(buf, Len(buf) - 1) \in terminatingOpcodes)
    THEN ScanReturn(FALSE, "terminator", Len(buf) - 1, imm, dests, starts)
    ELSE ScanReturn(TRUE, "valid", Len(buf), imm, dests, starts)

(* lines 261-272: after the loop, the terminating opcode and the cross-check
   of the jump destinations against the immediates *)
AfterLoop(buf, imm, dests, starts) ==
    IF ~(At(buf, Len(buf) - 1) \in terminatingOpcodes)
    THEN ScanReturn(FALSE, "terminator", Len(buf) - 1, imm, dests, starts)
    ELSE IF \E rjumpdest \in dests : rjumpdest \in imm
    THEN ScanReturn(FALSE, "immediate", Len(buf), imm, dests, starts)
    ELSE ScanReturn(TRUE, "valid", Len(buf), imm, dests, starts)

(* TargetOutOfBounds with the fault of leaving out `target < 0` *)
TargetOutOfBounds_UpperOnly(buf, target) == target > Len(buf) - 1

(* line 227 and line 253 *)
TargetOutOfBounds(buf, target) == target > Len(buf) - 1 \/ target < 0

(* line 251: the target of the jump table entry at jumptablePosition *)
TableTarget(buf, jumptablePosition, finalPos) ==
    readInt16BE(buf, jumptablePosition) + finalPos

(* lines 250-257: the entries are read in order; each target is added to
   rjumpdests before it is checked, and the first one out of bounds returns.
   TablePositions are the positions read. *)
TablePositions(buf, pos, finalPos) ==
    LET all == {q \in (pos + 1)..(finalPos - 1) : (q - (pos + 1)) % 2 = 0}
        bad == {q \in all : TargetOutOfBounds(buf, TableTarget(buf, q, finalPos))}
    IN  {q \in all : \A b \in bad : q <= b}

(* lines 196-260: the loop from cursor pos on.  pos is the cursor before the
   opcode is read; p is the cursor after `pos++`. *)
RECURSIVE ScanFrom(_, _, _, _, _, _)
ScanFrom(buf, opcodes, pos, imm, dests, starts) ==
    IF ~(pos < Len(buf)) THEN AfterLoop(buf, imm, dests, starts)
    ELSE
    LET opcode == At(buf, pos)
        p == pos + 1
        read == starts \cup {pos}
    IN
    IF ~(opcode \in opcodes)
    THEN ScanReturn(FALSE, "opcode", pos, imm, dests, read)
    ELSE IF opcode >= OP_PUSH1 /\ opcode <= OP_PUSH32
    THEN LET finalPos == p + opcode - 95
             imm2 == imm \cup (p..(finalPos - 1))
         IN  IF finalPos > Len(buf) - 1
             THEN ScanReturn(FALSE, "push", pos, imm2, dests, read)
             ELSE ScanFrom(buf, opcodes, finalPos, imm2, dests, read)
    ELSE IF opcode = OP_RJUMP \/ opcode = OP_RJUMPI
    THEN LET imm2 == imm \cup {p, p + 1}
         IN  IF p + 2 > Len(buf) - 1
             THEN ScanReturn(FALSE, "rjump", pos, imm2, dests, read)
             ELSE LET target == readInt16BE(buf, p) + p + 2
                      dests2 == dests \cup {target}
                  IN  IF TargetOutOfBounds(buf, target)
                      THEN ScanReturn(FALSE, "target", pos, imm2, dests2, read)
                      ELSE ScanFrom(buf, opcodes, p + 2, imm2, dests2, read)
    ELSE IF opcode = OP_RJUMPV
    THEN LET tableSize == At(buf, p)
         IN  IF tableSize = undefined
             \* RJUMPV is the last byte: tableSize is undefined, jumptableSize
             \* and finalPos are NaN, every comparison with NaN is false, no
             \* loop body runs, pos becomes NaN and `pos < code.length` ends
             \* the while loop
             THEN AfterLoop(buf, imm, dests, read)
             ELSE IF tableSize = 0
             THEN ScanReturn(FALSE, "table", pos, imm, dests, read)
             ELSE
             LET jumptableSize == tableSize * 2
                 finalPos == p + 1 + jumptableSize
             IN  IF p + jumptableSize + 1 > Len(buf) - 1
                 THEN ScanReturn(FALSE, "rjumpv", pos, imm, dests, read)
                 ELSE
                 LET imm2 == imm \cup (p..(finalPos - 1))
                     positions == TablePositions(buf, p, finalPos)
                     dests2 == dests \cup {TableTarget(buf, q, finalPos) : q \in positions}
                 IN  IF \E q \in positions :
                            TargetOutOfBounds(buf, TableTarget(buf, q, finalPos))
                     THEN ScanReturn(FALSE, "target", pos, imm2, dests2, read)
                     ELSE ScanFrom(buf, opcodes, finalPos, imm2, dests2, read)
    ELSE ScanFrom(buf, opcodes, p, imm, dests, read)

(* lines 184-273: the scan starts at offset 0 of the whole container *)
checkOpcodes(buf, table) == ScanFrom(buf, AllowedOpcodes(table), 0, {}, {}, {})

----------------------------------------------------------------------------
(* validateCode *)

(* How validateCode ended: ret is "true", "false" or "RangeError" (the
   exception of a Buffer read outside the Buffer, which the function does not
   catch); at names the block that ended it; scan is checkOpcodes' return,
   NoScan when checkOpcodes was not called. *)
NoScan == ScanReturn(FALSE, "none", 0, {}, {}, {})

Ended(ret, at, scan) == [ret |-> ret, at |-> at, scan |-> scan]

validateCode(buf, table) ==
    IF ~isEOFCode(buf) THEN Ended("true", "legacy", NoScan)
    ELSE IF ~VersionSupported(buf) THEN Ended("false", "version", NoScan)
    ELSE IF ~HeaderValid(buf) THEN Ended("false", "header", NoScan)
    ELSE IF TypeSectionCheck(buf) # "ok" THEN Ended(TypeSectionCheck(buf), "type", NoScan)
    ELSE IF ~LayoutValid(buf) THEN Ended("false", "layout", NoScan)
    ELSE LET scan == checkOpcodes(buf, table)
         IN  IF ~scan.ok THEN Ended("false", "opcodes", scan)
             ELSE Ended("true", "valid", scan)

----------------------------------------------------------------------------
(* The opcode handler map of ./opcodes: its keys are the opcodes the active
   hardfork defines.  HardforkOpcodes are the opcodes of a hardfork with the
   EOF EIPs active; OptionalOpcodes are bytes a table may or may not define. *)

HardforkOpcodes ==
    (0..11) \cup (16..29) \cup {32} \cup (48..72) \cup (80..95)
        \cup (96..127) \cup (128..159) \cup (160..164) \cup {176, 177}
        \cup (240..245) \cup {250, 253, 255}

OptionalOpcodes == {239}

Tables == {HardforkOpcodes \cup extra : extra \in SUBSET OptionalOpcodes}

----------------------------------------------------------------------------
(* The Buffers handed to the functions *)

MaxShortLen == 3     \* longest Buffer of ShortInputs
MaxInterior == 4     \* most bytes between the type section and the last byte in BodyInputs
MaxTail == 3         \* most bytes after the type section in LayoutInputs
MaxDeclared == 2     \* largest declared code or data size in LayoutInputs
MaxSuffix == 4       \* longest suffix appended to a Buffer

RECURSIVE SeqsOfLen(_, _)
SeqsOfLen(S, n) ==
    IF n = 0 THEN {<<>>}
    ELSE {Append(q, b) : q \in SeqsOfLen(S, n - 1), b \in S}

SeqsUpTo(S, n) == UNION {SeqsOfLen(S, k) : k \in 0..n}

U16(n) == <<n \div 256, n % 256>>

Zeros(n) == [i \in 1..n |-> 0]

RECURSIVE Flatten(_)
Flatten(ss) == IF ss = <<>> THEN <<>> ELSE Head(ss) \o Flatten(Tail(ss))

(* An EOF container laid out field by field; sizes is the sequence of the
   code section sizes written after the section count n *)
Container(ver, kt, ts, kc, n, sizes, kd, ds, term, types, tail) ==
    MAGIC \o <<ver, kt>> \o U16(ts) \o <<kc>> \o U16(n)
        \o Flatten([i \in 1..Len(sizes) |-> U16(sizes[i])])
        \o <<kd>> \o U16(ds) \o <<term>> \o types \o tail

(* One code section, one type entry 00 00 00 00 *)
Single(ver, cs, ds, tail) ==
    Container(ver, KIND_TYPE, 4, KIND_CODE, 1, <<cs>>, KIND_DATA, ds, TERMINATOR,
              Zeros(4), tail)

ShortBytes == {0, 1, 96, 239}

ShortInputs == SeqsUpTo(ShortBytes, MaxShortLen)

(* STOP, the byte 01, RJUMP, RJUMPV, PUSH1, SELFDESTRUCT *)
OpBytes == {0, 1, 92, 94, 96, 255}

(* Bodies of every shape followed by STOP, SELFDESTRUCT or ADD *)
BodyInputs ==
    {Single(0, Len(interior), 0, Append(interior, final)) :
        interior \in SeqsUpTo(OpBytes, MaxInterior), final \in {0, 255, 1}}

(* the terminating opcodes, ADD, PUSH1 and CALLCODE *)
FinalBytes == terminatingOpcodes \cup {1, 96, 242}

(* Short bodies followed by every last byte *)
FinalInputs ==
    {Single(ver, Len(interior), 0, Append(interior, final)) :
        ver \in {0, 1}, interior \in SeqsUpTo({0, 255}, 2), final \in FinalBytes}

(* STOP, an opcode no table defines, PUSH1 *)
DataBytes == {0, 12, 96}

LayoutInputs ==
    {Single(ver, cs, ds, tail) :
        ver \in {0, 1}, cs \in 0..MaxDeclared, ds \in 0..MaxDeclared,
        tail \in SeqsUpTo(DataBytes, MaxTail)}

(* Headers with each field right or wrong; the body fits n sections of one
   byte when n is 1 or 2 *)
HeaderInputs ==
    {Container(ver, kt, ts, kc, n, [i \in 1..(IF n <= 2 THEN n ELSE 1) |-> 1], kd, 0, term,
               Zeros(IF ts <= 8 THEN ts ELSE 4), Zeros((IF n <= 2 THEN n ELSE 1) + 1)) :
        ver \in {0, 1, 2}, kt \in {KIND_TYPE, KIND_CODE}, ts \in {0, 2, 4, 6, 8},
        kc \in {KIND_CODE, KIND_DATA}, n \in {0, 1, 2, MAX_CODE_SECTIONS + 1},
        kd \in {KIND_DATA, 0}, term \in {TERMINATOR, 1}}

(* Type entries at, just below and just above each bound *)
TypeEntries ==
    {<<inputs, outputs>> \o U16(maxStack) :
        inputs \in {0, 1, MAX_IO, MAX_IO + 1}, outputs \in {0, 1, MAX_IO, MAX_IO + 1},
        maxStack \in {0, 257, MAX_STACK_HEIGHT, MAX_STACK_HEIGHT + 1}}

(* One and two code sections of one byte with every type entry, in either
   place of the type section *)
TypeInputs ==
    {Container(0, KIND_TYPE, 4, KIND_CODE, 1, <<1>>, KIND_DATA, 0, TERMINATOR,
               e, <<0, 0>>) : e \in TypeEntries}
        \cup {Container(0, KIND_TYPE, 8, KIND_CODE, 2, <<1, 1>>, KIND_DATA, 0, TERMINATOR,
                        e \o Zeros(4), <<0, 0, 0>>) : e \in TypeEntries}
        \cup {Container(0, KIND_TYPE, 8, KIND_CODE, 2, <<1, 1>>, KIND_DATA, 0, TERMINATOR,
                        Zeros(4) \o e, <<0, 0, 0>>) : e \in TypeEntries}

(* The boundary scenarios of the specification, and the containers the body
   length rule of the source admits *)
MinimumEOF1 == Single(1, 1, 0, <<0>>)

Fixtures ==
    {MinimumEOF1,
     Single(2, 1, 0, <<0>>),
     <<239, 0, 1, 1, 0, 0, 2, 0, 0, 3, 0, 0, 0>>,
     Single(1, 1, 0, <<96>>),
     Single(1, 6, 0, <<96, 0, 92, 255, 254, 0>>),
     <<96, 0, 96, 0, 243>>,
     Single(0, 0, 0, <<0>>),
     Single(0, 1, 0, <<0, 0>>),
     Container(0, KIND_TYPE, 4, KIND_CODE, 3, <<1, 1, 1>>, KIND_DATA, 0, TERMINATOR,
               Zeros(4), <<0>>),
     Single(0, 4, 0, <<0, 92, 255, 252, 0>>),
     Single(0, 3, 0, <<254, 88, 0, 0>>),
     Single(0, 3, 0, <<0, 92, 255, 253>>),
     Single(0, 3, 0, <<94, 1, 255, 243>>),
     Single(0, 1, 12, <<0>> \o Zeros(13)),
     Single(0, 1, 88, <<0>> \o Zeros(89)),
     Single(0, 3, 0, <<254, 242, 0, 0>>),
     Single(0, 6, 0, <<96, 0, 92, 255, 254, 0, 0>>),
     Single(0, 6, 0, <<96, 0, 92, 255, 251, 0, 0>>),
     Single(0, 6, 0, <<92, 0, 1, 96, 0, 0, 0>>),
     Single(0, 6, 0, <<94, 1, 0, 0, 96, 0, 0>>),
     Container(0, KIND_TYPE, 8, KIND_CODE, 2, <<1, 1>>, KIND_DATA, 1, TERMINATOR,
               Zeros(8), <<0, 0, 12, 0>>),
     Container(1, KIND_TYPE, 8, KIND_CODE, 2, <<1, 1>>, KIND_DATA, 1, TERMINATOR,
               Zeros(8), <<0, 0, 12>>)}

(* Every prefix of a fixture, and every fixture with one more byte *)
PrefixInputs ==
    UNION {{SubSeq(f, 1, k) : k \in 0..Len(f)} : f \in Fixtures}
        \cup {Append(f, b) : f \in Fixtures, b \in {0, 12}}

Inputs ==
    ShortInputs \cup BodyInputs \cup FinalInputs \cup LayoutInputs \cup TypeInputs \cup HeaderInputs
        \cup Fixtures \cup PrefixInputs

----------------------------------------------------------------------------
(* The state machine: a caller holds a Buffer and calls the exported
   functions on it; each function is called at most once *)

Init ==
    /\ code \in Inputs
    /\ handlers \in Tables
    /\ called = {}
    /\ isEof = FALSE
    /\ version = 0
    /\ valid = "none"
    /\ exitAt = "none"
    /\ scanWhy = "none"
    /\ scanAt = 0
    /\ immediates = {}
    /\ rjumpdests = {}
    /\ opstarts = {}

(* isEOFCode(code) *)
IsEOFCode ==
    /\ "isEOFCode" \notin called
    /\ called' = called \cup {"isEOFCode"}
    /\ isEof' = isEOFCode(code)
    /\ UNCHANGED <<code, handlers, version, valid, exitAt, scanWhy, scanAt, immediates,
                   rjumpdests, opstarts>>

(* getEOFVersion(code), which calls isEOFCode *)
GetEOFVersion ==
    /\ "getEOFVersion" \notin called
    /\ called' = called \cup {"isEOFCode", "getEOFVersion"}
    /\ isEof' = isEOFCode(code)
    /\ version' = getEOFVersion(code)
    /\ UNCHANGED <<code, handlers, valid, exitAt, scanWhy, scanAt, immediates, rjumpdests,
                   opstarts>>

(* validateCode(code), which calls isEOFCode and checkOpcodes *)
ValidateCode ==
    /\ "validateCode" \notin called
    /\ called' = called \cup {"isEOFCode", "validateCode"}
    /\ isEof' = isEOFCode(code)
    /\ \E r \in {validateCode(code, handlers)} :
           /\ valid' = r.ret
           /\ exitAt' = r.at
           /\ scanWhy' = r.scan.why
           /\ scanAt' = r.scan.at
           /\ immediates' = r.scan.immediates
           /\ rjumpdests' = r.scan.rjumpdests
           /\ opstarts' = r.scan.opstarts
    /\ UNCHANGED <<code, handlers, version>>

Next == IsEOFCode \/ GetEOFVersion \/ ValidateCode

Spec == Init /\ [][Next]_vars

----------------------------------------------------------------------------
(* Properties.  The terms below are those of the specification, stated on
   the bytes of code and not through the operators that model the source. *)

Validated == "validateCode" \in called

(* the first two bytes are EF 00 *)
HasMagic == Len(code) >= 2 /\ code[1] = 239 /\ code[2] = 0

(* C1 -- Legacy passthrough: for every byte sequence whose first two bytes
   are not EF 00, sequences of length 0 or 1 included, validateCode returns
   true whatever the remaining bytes are. *)
C1_LegacyPassthrough == (Validated /\ ~HasMagic) => valid = "true"

(* C1 is exercised by the one-byte Buffer EF, by the empty Buffer, by
   EF 01 .. and by the legacy fixture 60 00 60 00 F3 *)
C1_Witness ==
    /\ Validated
    /\ code = <<239>>
    /\ valid = "true"
    /\ exitAt = "legacy"

(* C2 -- validateCode accepts the minimum EOF1 container
   EF0001 010004 020001 0001 030000 00 00000000 00, given an opcode table
   that defines STOP. *)
C2_Fixture == <<239, 0, 1, 1, 0, 4, 2, 0, 1, 0, 1, 3, 0, 0, 0, 0, 0, 0, 0, 0>>

C2_MinimumAccepted ==
    (Validated /\ code = C2_Fixture /\ 0 \in handlers) => valid = "true"

(* C3 -- Version rule: for every input that begins with EF 00, validateCode
   returns false when len(code) < 3 or when code[2] differs from 0x01; hence
   every accepted EOF input has code[2] = 0x01. *)
C3_VersionRule ==
    (Validated /\ HasMagic) =>
        /\ (Len(code) < 3 \/ code[3] # 1) => valid = "false"
        /\ valid = "true" => (Len(code) >= 3 /\ code[3] = 1)

(* The header fields of the specification's grammar, read from the bytes of
   code at their mandated offsets (0-based) *)
ByteAt(i) == IF i >= 0 /\ i < Len(code) THEN code[i + 1] ELSE undefined

U16At(i) == code[i + 1] * 256 + code[i + 2]

HdrTypeSize == U16At(4)

HdrN == U16At(7)

HdrLength == 13 + 2 * HdrN

HdrDataSize == U16At(10 + 2 * HdrN)

(* every header field lies inside code *)
HeaderReadable == Len(code) >= 15 /\ Len(code) >= HdrLength

RECURSIVE HdrCodeSizeSum(_)
HdrCodeSizeSum(k) == IF k = 0 THEN 0 ELSE U16At(9 + 2 * (k - 1)) + HdrCodeSizeSum(k - 1)

(* type_section_size + the N code_section_sizes + data_section_size *)
DeclaredBody == HdrTypeSize + HdrCodeSizeSum(HdrN) + HdrDataSize

(* len(code) - header_length *)
ActualBody == Len(code) - HdrLength

(* C4 -- Exact body length: for every EOF input that validateCode accepts,
   the declared sizes add up to len(code) - header_length; an input whose
   declared sizes are one byte larger or one byte smaller than the actual
   remainder is rejected. *)
C4_ExactBodyLength ==
    (Validated /\ HasMagic) =>
        /\ valid = "true" => (HeaderReadable /\ DeclaredBody = ActualBody)
        /\ (HeaderReadable /\ (DeclaredBody = ActualBody + 1 \/ DeclaredBody = ActualBody - 1))
              => valid = "false"

(* C5 -- validateCode returns a boolean for every byte sequence and never
   raises an exception; an input whose length ends before the declared type
   section is complete gives false, not an out-of-range read error. *)
C5_AlwaysBoolean == Validated => valid \in {"true", "false"}

(* the last byte of code *)
LastByte == code[Len(code)]

(* code with its last byte replaced by b *)
WithLastByte(b) == [code EXCEPT ![Len(code)] = b]

(* C6 -- Terminator asymmetry: 0xFF is rejected when it is scanned as an
   opcode before the final byte, but an input that passes every other check
   and whose last byte is 0xFF is accepted by the opcode pass, as it is when
   the last byte is 0x00, 0xF3, 0xFD or 0xFE; any other last byte is
   rejected.  An input passes every other check when the opcode pass accepts
   it with STOP as its last byte. *)
C6_TerminatorAsymmetry ==
    (Validated /\ HasMagic /\ exitAt \in {"opcodes", "valid"}) =>
        /\ valid = "true" =>
              \A i \in opstarts : i < Len(code) - 1 => code[i + 1] # 255
        /\ (LastByte \in {0, 243, 253, 254, 255} /\ checkOpcodes(WithLastByte(0), handlers).ok)
              => valid = "true"
        /\ LastByte \notin {0, 243, 253, 254, 255} => valid = "false"

(* The operand offsets of the instruction whose opcode is at offset s: the
   PUSH operand bytes, the RJUMP/RJUMPI offset bytes, the RJUMPV length prefix
   and table bytes *)
OperandOffsets(s) ==
    LET op == ByteAt(s)
    IN  IF op >= 96 /\ op <= 127 THEN (s + 1)..(s + op - 95)
        ELSE IF op = 92 \/ op = 93 THEN {s + 1, s + 2}
        ELSE IF op = 94 /\ ByteAt(s + 1) # undefined THEN (s + 1)..(s + 1 + 2 * ByteAt(s + 1))
        ELSE {}

(* the Immediate Set of the instructions the scan read *)
ImmediateSet == UNION {OperandOffsets(s) : s \in opstarts}

(* C7 -- Immediate disjointness: in every accepted EOF input, no target
   recorded for an RJUMP, RJUMPI or RJUMPV entry is an offset in the Immediate
   Set, for backward jumps and for forward jumps into the immediates of an
   instruction scanned after the jump. *)
C7_ImmediateDisjointness ==
    (Validated /\ HasMagic /\ valid = "true") =>
        \A t \in rjumpdests : t \notin ImmediateSet

(* an accepted container with a jump whose target is an instruction that has
   immediates and is scanned after the jump *)
C7_Witness ==
    /\ Validated /\ HasMagic /\ valid = "true"
    /\ \E t \in rjumpdests : t \in opstarts /\ t + 1 \in ImmediateSet /\ t + 1 \in immediates

(* The offsets of the data section that lie before the last byte of code *)
DataOffsets ==
    {i \in (HdrLength + HdrTypeSize + HdrCodeSizeSum(HdrN))
              ..(HdrLength + HdrTypeSize + HdrCodeSizeSum(HdrN) + HdrDataSize - 1) :
        i < Len(code) - 1}

(* C8 -- The data section is opaque: validateCode never rejects an input
   because a byte of the data section is not an allowed opcode, data bytes are
   never interpreted as instructions or immediates, and two EOF inputs of
   equal length that differ only in data-section bytes and have the same
   final byte receive the same verdict. *)
C8_DataOpaque ==
    (Validated /\ HasMagic /\ HeaderReadable) =>
        /\ ~(scanWhy = "opcode" /\ scanAt \in DataOffsets)
        /\ valid = "true" => DataOffsets \cap (opstarts \cup immediates) = {}
        /\ \A i \in DataOffsets, b \in DataBytes :
              validateCode([code EXCEPT ![i + 1] = b], handlers).ret = valid

(* C9 -- Version probe: getEOFVersion returns 0 for every input without the
   EOF magic and the byte code[2], a value in 0..255, for every input with it;
   isEOFCode(code) holds if and only if getEOFVersion(code) = code[2];
   isEOFCode(code) is true exactly when len(code) >= 2 and the first two bytes
   are EF 00. *)
C9_VersionProbe ==
    ("getEOFVersion" \in called) =>
        /\ ~HasMagic => version = 0
        /\ HasMagic => (version = ByteAt(2) /\ version \in 0..255)
        /\ isEof <=> version = ByteAt(2)
        /\ isEof <=> HasMagic

(* C9 as amended: getEOFVersion returns 0 without the magic, the byte code[2]
   with the magic when len(code) >= 3, and undefined for the two-byte input
   EF 00; isEOFCode(code) implies getEOFVersion(code) = code[2], and
   getEOFVersion(code) = code[2] implies isEOFCode(code) or code[2] = 0;
   isEOFCode(code) is true exactly when len(code) >= 2 and the first two bytes
   are EF 00. *)
C9_VersionProbeAmended ==
    ("getEOFVersion" \in called) =>
        /\ ~HasMagic => version = 0
        /\ (HasMagic /\ Len(code) >= 3) => (version = code[3] /\ version \in 0..255)
        /\ (HasMagic /\ Len(code) = 2) => version = undefined
        /\ isEof => version = ByteAt(2)
        /\ version = ByteAt(2) => (isEof \/ ByteAt(2) = 0)
        /\ isEof <=> HasMagic

(* a legacy input whose byte 2 is 0: the version is code[2] without the magic *)
C9_Witness ==
    /\ "getEOFVersion" \in called
    /\ ~HasMagic /\ Len(code) >= 3 /\ code[1] = 239 /\ code[3] = 0
    /\ version = 0 /\ ~isEof

(* the header grammar of the specification *)
WellFormedHeader ==
    /\ Len(code) >= 15
    /\ ByteAt(3) = 1
    /\ ByteAt(6) = 2
    /\ HdrN >= 1 /\ HdrN <= 1024
    /\ HdrTypeSize % 4 = 0 /\ HdrTypeSize >= 4 /\ HdrTypeSize \div 4 = HdrN
    /\ ByteAt(9 + 2 * HdrN) = 3
    /\ ByteAt(12 + 2 * HdrN) = 0

(* C10 -- Header well-formedness: every EOF input that validateCode accepts
   has len(code) >= 15, KIND_TYPE at offset 3, KIND_CODE at offset 6,
   KIND_DATA at offset 9+2N, the terminator at offset 12+2N, 1 <= N <= 1024,
   and type_section_size a multiple of 4, at least 4, with
   type_section_size / 4 = N; an input violating any of these is rejected. *)
C10_HeaderWellFormed ==
    (Validated /\ HasMagic) =>
        /\ valid = "true" => WellFormedHeader
        /\ ~WellFormedHeader => valid = "false"

(* an accepted container with two code sections *)
C10_Witness ==
    /\ Validated /\ HasMagic /\ valid = "true"
    /\ WellFormedHeader /\ HdrN = 2

(* the offsets of the type entries that lie wholly inside code *)
TypeEntryOffsets ==
    {HdrLength + 4 * k : k \in {j \in 0..(Len(code) \div 4) : j < HdrN}}
        \cap {o \in 0..Len(code) : o + 4 <= Len(code)}

(* the entry at offset o is within the bounds of the specification *)
TypeEntryWithinBounds(o) ==
    /\ ByteAt(o) <= 127
    /\ ByteAt(o + 1) <= 127
    /\ U16At(o + 2) <= 1023

(* C11 -- Type entries: in every accepted EOF input each of the N 4-byte type
   entries starting at offset 13+2N has inputs <= 0x7F, outputs <= 0x7F and
   max_stack <= 1023; an input in which any one of the N entries exceeds a
   bound is rejected, whichever entry it is. *)
C11_TypeEntries ==
    (Validated /\ HasMagic) =>
        /\ valid = "true" =>
              /\ HeaderReadable
              /\ Cardinality(TypeEntryOffsets) = HdrN
              /\ \A o \in TypeEntryOffsets : TypeEntryWithinBounds(o)
        /\ (HeaderReadable /\ \E o \in TypeEntryOffsets : ~TypeEntryWithinBounds(o))
              => valid = "false"

(* a container with two sections whose second type entry alone exceeds a
   bound, rejected by the type section loop *)
C11_Witness ==
    /\ Validated /\ HasMagic /\ HeaderReadable /\ HdrN = 2
    /\ HdrLength \in TypeEntryOffsets /\ TypeEntryWithinBounds(HdrLength)
    /\ HdrLength + 4 \in TypeEntryOffsets /\ ~TypeEntryWithinBounds(HdrLength + 4)
    /\ valid = "false" /\ exitAt = "type"

(* the suffixes appended to code: the bytes 00 and KIND_DATA *)
Suffixes == SeqsUpTo({0, 3}, MaxSuffix)

(* validateCode rejected code in phase H, lines 69-133 *)
RejectedInPhaseH == Validated /\ HasMagic /\ exitAt = "header"

(* code || suffix is rejected in phase H by the same block as code *)
RejectedIdentically(suffix) ==
    /\ validateCode(code \o suffix, handlers).ret = "false"
    /\ validateCode(code \o suffix, handlers).at = "header"
    /\ HeaderReject(code \o suffix) = HeaderReject(code)

(* C12 -- Monotone prefix invariant: if validateCode rejects an input during
   header parsing (a read past the end of the input, a wrong sentinel byte, or
   a bad section count), then for every suffix the extended input
   code || suffix is also rejected in phase H for the same reason. *)
C12_MonotonePrefix ==
    RejectedInPhaseH =>
        /\ HeaderReject(code) # "none"
        /\ \A suffix \in Suffixes : RejectedIdentically(suffix)

(* the rejection rests on bytes that are present in code: a wrong sentinel
   byte inside code, a type section size that is no positive multiple of 4, or
   a bad section count *)
FaultPresentInHeader ==
    /\ Len(code) >= 15
    /\ \/ ByteAt(3) # 1
       \/ HdrTypeSize % 4 # 0 \/ HdrTypeSize < 4
       \/ ByteAt(6) # 2
       \/ HdrN = 0 \/ HdrN > 1024
       \/ HdrTypeSize \div 4 # HdrN
       \/ ByteAt(9 + 2 * HdrN) \notin {undefined, 3}
       \/ (ByteAt(9 + 2 * HdrN) = 3 /\ ByteAt(12 + 2 * HdrN) \notin {undefined, 0})

(* C12 as amended: if validateCode rejects an input during header parsing
   because of bytes present in the input (a wrong sentinel byte inside the
   input, a type section size that is no positive multiple of 4, or a bad
   section count), then for every suffix code || suffix is rejected in phase H
   by the same check.  A rejection that rests on the input ending early
   (len(code) < 15, or the KIND_DATA or terminator offset at or past the end)
   is not preserved. *)
C12_MonotonePrefixAmended ==
    (RejectedInPhaseH /\ FaultPresentInHeader) =>
        /\ HeaderReject(code) # "none"
        /\ \A suffix \in Suffixes : RejectedIdentically(suffix)

(* a header whose section count does not match its type section size and
   whose KIND_DATA offset is the end of code, so that a suffix supplies the
   rest of the header *)
C12_Witness ==
    /\ RejectedInPhaseH /\ FaultPresentInHeader
    /\ HeaderReject(code) = "count"
    /\ Len(code) = 9 + 2 * HdrN
    /\ \E suffix \in Suffixes :
          /\ Len(suffix) = 4
          /\ suffix[1] = 3 /\ suffix[4] = 0
          /\ RejectedIdentically(suffix)

(* checkOpcodes was called on code *)
Scanned == Validated /\ HasMagic /\ exitAt \in {"opcodes", "valid"}

(* the bytes the opcode table defines, plus 0xFE, minus 0x58, 0xFF and 0xF2 *)
AllowedBytes == ((handlers \cup {254}) \ {88}) \ {255, 242}

(* C13 -- Opcode legality: the opcode pass rejects as soon as the byte at the
   cursor is not in the allowed set (the bytes the opcode table defines, plus
   0xFE, minus 0x58, 0xFF and 0xF2); in every accepted input each byte
   consumed as an opcode is in that set, 0xFE is accepted even when the table
   does not define it, and 0x58 and 0xF2 are rejected even when the table
   defines them. *)
C13_OpcodeLegality ==
    Scanned =>
        /\ \A o \in opstarts :
              ByteAt(o) \notin AllowedBytes =>
                  /\ valid = "false" /\ scanWhy = "opcode" /\ scanAt = o
                  /\ \A later \in opstarts : later <= o
        /\ scanWhy = "opcode" =>
              /\ scanAt \in opstarts /\ ByteAt(scanAt) \notin AllowedBytes
        /\ valid = "true" => \A o \in opstarts : ByteAt(o) \in AllowedBytes
        /\ \A o \in opstarts :
              /\ ByteAt(o) = 254 => ~(scanWhy = "opcode" /\ scanAt = o)
              /\ ByteAt(o) \in {88, 242} =>
                    (valid = "false" /\ scanWhy = "opcode" /\ scanAt = o)

(* 0xFE, which the table does not define, was read as an opcode and passed;
   0x58, which the table defines, was read next and rejected *)
C13_Witness ==
    /\ Scanned /\ 254 \notin handlers /\ 88 \in handlers
    /\ valid = "false" /\ scanWhy = "opcode" /\ ByteAt(scanAt) = 88
    /\ \E o \in opstarts : o < scanAt /\ ByteAt(o) = 254

(* the signed big-endian 16-bit value of the two bytes at offset i *)
S16At(i) == IF U16At(i) >= 32768 THEN U16At(i) - 65536 ELSE U16At(i)

(* the opcode pass returned false while handling the instruction at q *)
JumpRejectedAt(q) ==
    valid = "false" /\ scanAt = q /\ scanWhy \in {"rjump", "target"}

(* C14 -- RJUMP/RJUMPI: for opcode 0x5C or 0x5D read at offset q, with
   p = q + 1, the two bytes at p and p+1 are marked immediate, the input is
   rejected if fewer than 2 bytes remain at p, the target is the sign-extended
   big-endian 16-bit value of code[p..p+2] plus p + 2, the input is rejected
   if target < 0 or target > len(code) - 1, and otherwise the target is
   recorded and the cursor advances to p + 2. *)
C14_RelativeJump ==
    Scanned =>
        \A q \in opstarts :
            (ByteAt(q) \in {92, 93} /\ ByteAt(q) \in AllowedBytes) =>
                /\ {q + 1, q + 2} \subseteq immediates
                /\ IF q + 2 > Len(code) - 1
                   THEN JumpRejectedAt(q)
                   ELSE IF \/ S16At(q + 1) + q + 3 < 0
                           \/ S16At(q + 1) + q + 3 > Len(code) - 1
                   THEN JumpRejectedAt(q)
                   ELSE /\ ~JumpRejectedAt(q)
                        /\ S16At(q + 1) + q + 3 \in rjumpdests
                        /\ q + 3 < Len(code) => q + 3 \in opstarts

(* the opcode pass returned false while handling the RJUMPV at q *)
TableRejectedAt(q) ==
    valid = "false" /\ scanAt = q /\ scanWhy \in {"table", "rjumpv", "target"}

(* the target of entry k (from 0) of the jump table whose length prefix is at
   offset p *)
EntryTarget(p, k) == S16At(p + 1 + 2 * k) + (p + 1 + 2 * ByteAt(p))

(* C15 -- RJUMPV: for opcode 0x5E followed at offset p by
   table_size = code[p], the input is rejected if table_size == 0 or if the
   length prefix plus the 2*table_size table bytes do not fit in the stream;
   otherwise offsets p .. p + 2*table_size are all marked immediate, each of
   the table_size entries (signed big-endian 16-bit at p+1, p+3, ...) yields
   target = entry + (p + 1 + 2*table_size), any target outside
   [0, len(code) - 1] rejects, and the cursor advances to
   p + 1 + 2*table_size. *)
C15_JumpTable ==
    Scanned =>
        \A q \in opstarts :
            (ByteAt(q) = 94 /\ ByteAt(q) \in AllowedBytes) =>
                LET p == q + 1
                    table_size == ByteAt(p)
                IN  IF table_size = undefined THEN valid = "false"
                    ELSE IF table_size = 0 THEN TableRejectedAt(q)
                    ELSE IF p + 2 * table_size > Len(code) - 1 THEN TableRejectedAt(q)
                    ELSE /\ (p..(p + 2 * table_size)) \subseteq immediates
                         /\ IF \E k \in 0..(table_size - 1) :
                                  \/ EntryTarget(p, k) < 0
                                  \/ EntryTarget(p, k) > Len(code) - 1
                            THEN TableRejectedAt(q)
                            ELSE /\ ~TableRejectedAt(q)
                                 /\ \A k \in 0..(table_size - 1) :
                                       EntryTarget(p, k) \in rjumpdests
                                 /\ p + 1 + 2 * table_size < Len(code) =>
                                       p + 1 + 2 * table_size \in opstarts

(* the opcode pass returned false while handling the PUSH at q *)
PushRejectedAt(q) == valid = "false" /\ scanAt = q /\ scanWhy = "push"

(* C16 -- PUSH family: for an opcode op with 0x60 <= op <= 0x7F read at
   offset q, exactly the op - 0x5F offsets q+1 .. q+(op - 0x5F) are marked
   immediate and are not checked as opcodes, the next opcode is read at
   q + (op - 0x5F) + 1, and the input is rejected if the operand runs off the
   end of the stream (as for a code section whose single byte is PUSH1). *)
C16_PushOperand ==
    Scanned =>
        \A q \in opstarts :
            (ByteAt(q) \in 96..127 /\ ByteAt(q) \in AllowedBytes) =>
                LET last == q + (ByteAt(q) - 95)
                IN  /\ ((q + 1)..last) \subseteq immediates
                    /\ ((q + 1)..last) \cap opstarts = {}
                    /\ IF last > Len(code) - 1
                       THEN PushRejectedAt(q)
                       ELSE /\ ~PushRejectedAt(q)
                            /\ last + 1 < Len(code) => last + 1 \in opstarts

(* the offsets of the magic and the header, 0 .. 12 + 2N *)
HeaderOffsets == 0..(12 + 2 * HdrN)

(* C17 -- Starting the opcode pass at container offset 0 produces no false
   rejection: for every input that passes the magic, version, header,
   type-section and layout checks, each byte of the magic and header (offsets
   0 .. 12+2N) is accepted by the opcode pass as an opcode that consumes no
   operand (none is rejected as undefined and none is treated as PUSH, RJUMP,
   RJUMPI or RJUMPV), so the pass reaches the body with the cursor at an
   instruction boundary. *)
C17_HeaderHarmless ==
    Scanned =>
        /\ \A o \in HeaderOffsets :
              /\ o \in opstarts
              /\ ~(scanWhy = "opcode" /\ scanAt = o)
              /\ ByteAt(o) \notin (92..94) \cup (96..127)
        /\ HeaderOffsets \cap immediates = {}
        /\ HdrLength \in opstarts

(* C18 -- If the opcode table does not define 0xEF, validateCode returns
   false for every input that begins with the EOF magic EF 00, whatever its
   version, header and body: checkOpcodes is called on the whole container,
   starts its cursor at offset 0 and looks up the magic byte 0xEF in the
   allowed opcode set before anything else. *)
C18_UndefinedMagicByte ==
    (Validated /\ HasMagic /\ 239 \notin handlers) =>
        /\ valid = "false"
        /\ Scanned => (scanWhy = "opcode" /\ scanAt = 0 /\ opstarts = {0})

(* C19 -- In every input that checkOpcodes accepts, each recorded
   relative-jump target is an offset at which the scan read an opcode: every
   offset in [0, len(code)) is either a cursor position where an opcode was
   read or a member of the immediates set, never both, so a target that is in
   range and not an immediate cannot lie inside an instruction. *)
C19_TargetsAreInstructionStarts ==
    (Scanned /\ valid = "true") =>
        /\ \A o \in 0..(Len(code) - 1) : (o \in opstarts) # (o \in immediates)
        /\ opstarts \cup immediates \subseteq 0..(Len(code) - 1)
        /\ rjumpdests \subseteq opstarts

(* an accepted input with a PUSH operand and a backward jump over it, whose
   target is the PUSH opcode *)
C19_Witness ==
    /\ Scanned /\ valid = "true"
    /\ \E q \in opstarts :
          /\ ByteAt(q) \in {92, 93}
          /\ S16At(q + 1) + q + 3 \in rjumpdests
          /\ S16At(q + 1) + q + 3 < q
          /\ ByteAt(S16At(q + 1) + q + 3) \in 96..127
          /\ S16At(q + 1) + q + 4 \in immediates

====
